---------------------------- MODULE Spec2Model ----------------------------
(***************************************************************************)
(* The attention modules of InsideLLM-Transformers: MultiHeadAttention      *)
(* (MultiHeadAttention.ipynb), GroupedQueryAttention and                    *)
(* CausalSelfAttention (the notebooks carried in README.md), as one Python  *)
(* session: a module is constructed, input tensors are made, the module is  *)
(* switched between training and inference mode and forward is called.      *)
(* Spec explores calls on small tensors of every shape, BatchSpec calls on  *)
(* whole batches, TestSpec the run of test_causal_attention.                *)
(*                                                                          *)
(* Numbers.  A float32 value is an integer.  The values softmax produces    *)
(* are in fixed point with One units to 1.0; a quotient that is not zero is *)
(* never rounded to zero, so "exactly zero" means what it means in the      *)
(* code.  exp underflows to zero where float32's does.                      *)
(*                                                                          *)
(* Tensors.  A tensor is [shape, data]: data is the nested sequence of its  *)
(* elements, data[i][j][k] for a 3-D tensor; Storage(t) is its row-major    *)
(* storage, which view re-reads.  An operation whose shapes do not fit      *)
(* yields Err(..), which every later operation passes on (the exception     *)
(* propagating out of forward).                                             *)
(***************************************************************************)
EXTENDS Integers, Sequences, FiniteSets, TLC

\* ------------------------------------------------------------------ bounds
MaxDModel == 4
MaxBatch == 2
MaxSeq == 2
MaxTokens == 2
MaxDropped == 1
MaxCalls == 2
\* The number of input patterns forward is called on, the magnitude of their
\* large elements, and the number of parameter initialisations.
NumPatterns == 2
Big == 46000
NumSeeds == 1
\* The number of inputs the causal example is run on.
NumExamples == 10
\* The longest sequence whose causal mask is examined.
MaxMaskLen == 5

\* --------------------------------------------------------------- numerics
\* 1.0 in the fixed-point unit of softmax's results.
One == 1024
\* exp(-d) is 0.0 in float32 for d above this (the smallest subnormal is 2^-149).
ExpUnderflow == 104
\* The constant masked_fill writes.
MaskFill == -1000000000
\* The default of the constructors' dropout argument, 0.1, as DropNum/DropDen.
DropNum == 1
DropDen == 10

RECURSIVE SumSeq(_)
SumSeq(s) == IF s = << >> THEN 0 ELSE Head(s) + SumSeq(Tail(s))

RECURSIVE Prod(_)
Prod(s) == IF s = << >> THEN 1 ELSE Head(s) * Prod(Tail(s))

MaxOf(S) == CHOOSE m \in S : \A y \in S : y <= m

\* math.sqrt / np.sqrt, to the nearest integer.
ISqrt(n) == CHOOSE r \in 0..n : (2 * r - 1) * (2 * r - 1) < 4 * n /\ 4 * n < (2 * r + 1) * (2 * r + 1)

\* exp(-d) for d >= 0, in 64ths: the table for small d, one unit (positive,
\* tiny) down to the underflow, then exactly zero.
ExpTable == <<64, 24, 9, 3>>
ExpNeg(d) == IF d > ExpUnderflow THEN 0
             ELSE IF d < Len(ExpTable) THEN ExpTable[d + 1] ELSE 1

\* a / b for a >= 0, b > 0, never rounding a nonzero quotient to zero.
FDiv(a, b) == IF a = 0 THEN 0 ELSE IF a \div b = 0 THEN 1 ELSE a \div b

\* ---------------------------------------------------------------- tensors
Err(msg) == [err |-> msg]
IsErr(t) == "err" \in DOMAIN t
NoneV == [kind |-> "none"]
IsNone(t) == "kind" \in DOMAIN t /\ t.kind = "none"

\* A tensor: its shape and its elements, nested one level per dimension
\* (indices are 1-based here, 0-based in the code).
Tensor(shape, data) == [shape |-> shape, data |-> data]
Rank(t) == Len(t.shape)
Numel(t) == Prod(t.shape)
Count(t) == IF IsErr(t) THEN 0 ELSE Numel(t)
\* The n values F(1), .., F(n) as a tuple.
Vec(n, F(_)) == SubSeq([i \in 1..n |-> F(i)], 1, n)

\* Tensors of rank 2, 3 and 4 given by their elements.
T2(s, F(_, _)) ==
    Tensor(s, Vec(s[1], LAMBDA a : Vec(s[2], LAMBDA b : F(a, b))))
T3(s, F(_, _, _)) ==
    Tensor(s, Vec(s[1], LAMBDA a : Vec(s[2], LAMBDA b : Vec(s[3], LAMBDA c : F(a, b, c)))))
T4(s, F(_, _, _, _)) ==
    Tensor(s, Vec(s[1], LAMBDA a : Vec(s[2], LAMBDA b :
                  Vec(s[3], LAMBDA c : Vec(s[4], LAMBDA d : F(a, b, c, d))))))

\* The element with index tuple idx.
RECURSIVE AtIdx(_, _)
AtIdx(x, idx) == IF idx = << >> THEN x ELSE AtIdx(x[Head(idx)], Tail(idx))

\* The row-major storage of nested data of the given rank, and back.
RECURSIVE Flat(_, _)
Flat(x, rank) ==
    IF rank = 1 THEN x
    ELSE IF x = << >> THEN << >>
    ELSE Flat(Head(x), rank - 1) \o Flat(Tail(x), rank)

RECURSIVE Unflat(_, _)
Unflat(data, shape) ==
    IF Len(shape) = 1 THEN data
    ELSE LET step == Prod(Tail(shape))
         IN  Vec(shape[1], LAMBDA i :
                 Unflat(SubSeq(data, (i - 1) * step + 1, i * step), Tail(shape)))

Storage(t) == Flat(t.data, Rank(t))

\* The tensor of t's shape whose storage is data.
Like(t, data) == Tensor(t.shape, Unflat(data, t.shape))

\* x.view(*spec): spec may hold one -1, which is inferred.  The storage is
\* kept and re-read under the new shape.
ViewShape(n, spec) ==
    LET known == Prod([i \in 1..Len(spec) |-> IF spec[i] = -1 THEN 1 ELSE spec[i]])
        holes == {i \in 1..Len(spec) : spec[i] = -1}
    IN  IF holes = {} THEN spec
        ELSE IF known = 0 \/ n % known # 0 THEN << >>
        ELSE Vec(Len(spec), LAMBDA i : IF spec[i] = -1 THEN n \div known ELSE spec[i])

View(t, spec) ==
    IF IsErr(t) THEN t
    ELSE LET shape == ViewShape(Numel(t), spec)
         IN  IF shape = << >> \/ Prod(shape) # Numel(t)
             THEN Err("view: shape is invalid for input size")
             ELSE Tensor(shape, Unflat(Storage(t), shape))

\* x.permute(0, 2, 1, 3) and x.transpose(1, 2) of a 4-D tensor, with the
\* copy .contiguous() makes.
SwapMiddle(t) ==
    IF IsErr(t) THEN t
    ELSE T4(<<t.shape[1], t.shape[3], t.shape[2], t.shape[4]>>,
            LAMBDA a, b, c, d : t.data[a][c][b][d])

\* x.transpose(-2, -1) of a 4-D tensor and x.transpose(1, 2) of a 3-D one.
SwapLast(t) ==
    IF IsErr(t) THEN t
    ELSE IF Rank(t) = 4
         THEN T4(<<t.shape[1], t.shape[2], t.shape[4], t.shape[3]>>,
                 LAMBDA a, b, c, d : t.data[a][b][d][c])
         ELSE T3(<<t.shape[1], t.shape[3], t.shape[2]>>,
                 LAMBDA a, b, c : t.data[a][c][b])

\* Broadcasting of a tensor of shape `from` to the shape `to` (right-aligned,
\* a dimension of size 1 is repeated): whether it is possible, and the index
\* read for the index idx of the result.
Broadcastable(from, to) ==
    /\ Len(from) <= Len(to)
    /\ \A i \in 1..Len(from) :
          LET j == i + Len(to) - Len(from) IN from[i] = to[j] \/ from[i] = 1

BroadcastIdx(from, to, idx) ==
    Vec(Len(from), LAMBDA i : IF from[i] = 1 THEN 1 ELSE idx[i + Len(to) - Len(from)])

\* torch.matmul of two 4-D tensors: the two leading (batch) dimensions
\* broadcast, the last two are multiplied as matrices.
Matmul(a, b) ==
    IF IsErr(a) THEN a ELSE IF IsErr(b) THEN b
    ELSE LET ba == SubSeq(a.shape, 1, 2)
             bb == SubSeq(b.shape, 1, 2)
             batch == Vec(2, LAMBDA i : IF ba[i] = 1 THEN bb[i] ELSE ba[i])
             inner == a.shape[4]
         IN  IF ~Broadcastable(ba, batch) \/ ~Broadcastable(bb, batch) \/ inner # b.shape[3]
             THEN Err("matmul: shapes cannot be multiplied")
             ELSE T4(batch \o <<a.shape[3], b.shape[4]>>, LAMBDA x, y, i, j :
                      LET ra == a.data[IF ba[1] = 1 THEN 1 ELSE x][IF ba[2] = 1 THEN 1 ELSE y][i]
                          mb == b.data[IF bb[1] = 1 THEN 1 ELSE x][IF bb[2] = 1 THEN 1 ELSE y]
                      IN  SumSeq(Vec(inner, LAMBDA k : ra[k] * mb[k][j])))

\* torch.bmm: both 3-D with the same batch size.
Bmm(a, b) ==
    IF IsErr(a) THEN a ELSE IF IsErr(b) THEN b
    ELSE IF a.shape[1] # b.shape[1] \/ a.shape[3] # b.shape[2]
         THEN Err("bmm: shapes cannot be multiplied")
         ELSE T3(<<a.shape[1], a.shape[2], b.shape[3]>>, LAMBDA x, i, j :
                  SumSeq(Vec(a.shape[3], LAMBDA k : a.data[x][i][k] * b.data[x][k][j])))

\* nn.Linear on a 3-D input: y = x W^T + bias over the last dimension;
\* weight is (out, in).
Linear(layer, x) ==
    IF IsErr(x) THEN x
    ELSE LET out == layer.weight.shape[1]
             in == layer.weight.shape[2]
         IN  IF x.shape[3] # in THEN Err("linear: shapes cannot be multiplied")
             ELSE T3(<<x.shape[1], x.shape[2], out>>, LAMBDA b, t, o :
                      SumSeq(Vec(in, LAMBDA k : x.data[b][t][k] * layer.weight.data[o][k]))
                      + layer.bias.data[o])

\* Elementwise t / s.
DivScalar(t, s) ==
    IF IsErr(t) THEN t
    ELSE LET old == Storage(t)
         IN  Like(t, Vec(Len(old), LAMBDA g : old[g] \div s))

\* scores.masked_fill(mask == 0, value), scores 3-D or 4-D: mask is
\* broadcast to scores' shape.
MaskedFill(t, mask, value) ==
    IF IsErr(t) THEN t
    ELSE IF ~Broadcastable(mask.shape, t.shape)
         THEN Err("masked_fill: mask is not broadcastable")
         ELSE LET m(idx) == AtIdx(mask.data, BroadcastIdx(mask.shape, t.shape, idx))
              IN  IF Rank(t) = 4
                  THEN T4(t.shape, LAMBDA a, b, c, d :
                           IF m(<<a, b, c, d>>) = 0 THEN value ELSE t.data[a][b][c][d])
                  ELSE T3(t.shape, LAMBDA a, b, c :
                           IF m(<<a, b, c>>) = 0 THEN value ELSE t.data[a][b][c])

\* exp(s - m) for s <= m, in 64ths.
ExpOf(m, s) == IF s < m - ExpUnderflow THEN 0 ELSE ExpNeg(m - s)

\* softmax of one row: exp(s - max) / sum(exp(s - max)).
SoftmaxRow(row) ==
    LET n == Len(row)
        m == MaxOf({row[j] : j \in 1..n})
        e == Vec(n, LAMBDA j : ExpOf(m, row[j]))
        den == SumSeq(e)
    IN  Vec(n, LAMBDA j : FDiv(e[j] * One, den))

\* F.softmax(t, dim=0): normalised over the batch dimension.
SoftmaxDim0(t) ==
    IF IsErr(t) THEN t
    ELSE IF Rank(t) = 4
         THEN T4(t.shape, LAMBDA a, b, c, d :
                  SoftmaxRow(Vec(t.shape[1], LAMBDA z : t.data[z][b][c][d]))[a])
         ELSE T3(t.shape, LAMBDA a, b, c :
                  SoftmaxRow(Vec(t.shape[1], LAMBDA z : t.data[z][b][c]))[a])

\* F.softmax(t, dim=-1), t 3-D or 4-D.
Softmax(t) ==
    IF IsErr(t) THEN t
    ELSE IF Rank(t) = 4
         THEN Tensor(t.shape, Vec(t.shape[1], LAMBDA a : Vec(t.shape[2], LAMBDA b :
                         Vec(t.shape[3], LAMBDA c : SoftmaxRow(t.data[a][b][c])))))
         ELSE Tensor(t.shape, Vec(t.shape[1], LAMBDA a :
                         Vec(t.shape[2], LAMBDA b : SoftmaxRow(t.data[a][b]))))

\* The outcomes of one dropout call over n elements: the set of the offsets
\* (1-based, row-major) that are zeroed.
RECURSIVE DropSets(_, _)
DropSets(n, k) ==
    IF k = 0 THEN {{}}
    ELSE LET smaller == DropSets(n, k - 1)
         IN  smaller \cup {S \cup {i} : S \in smaller, i \in 1..n}

\* Whether nn.Dropout(p) changes its input: in training mode with p > 0.
DropoutAlwaysActive(p, training) == p.num > 0

DropoutActive(p, training) == training /\ p.num > 0

\* nn.Dropout(p)(t) with p = p.num / p.den: the identity when inactive;
\* otherwise the elements of `dropped` become 0 and the others are
\* multiplied by 1 / (1 - p).
Dropout(t, p, training, dropped) ==
    IF IsErr(t) \/ ~DropoutActive(p, training) THEN t
    ELSE LET old == Storage(t)
         IN  Like(t, Vec(Len(old), LAMBDA g :
                 IF g \in dropped THEN 0
                 ELSE (old[g] * p.den) \div (p.den - p.num)))

\* The outcomes explored for one call of nn.Dropout(p) on n elements.
DropChoices(n, p, training) ==
    IF DropoutActive(p, training) THEN DropSets(n, MaxDropped) ELSE {{}}

\* torch.tril(torch.ones(n, n)).
Tril(n) == T2(<<n, n>>, LAMBDA i, j : IF j <= i THEN 1 ELSE 0)

\* 1.0 - torch.triu(torch.ones((n, n)), diagonal=1).unsqueeze(0).unsqueeze(0), as bool.
TestMask(n) == T4(<<1, 1, n, n>>, LAMBDA a, b, i, j : 1 - (IF j > i THEN 1 ELSE 0))

\* The order in which repeat_interleave reads the slices 1..n of a
\* dimension: every slice `repeats` times in a row.
RECURSIVE Copies(_, _)
Copies(x, k) == IF k = 0 THEN << >> ELSE <<x>> \o Copies(x, k - 1)

RECURSIVE Interleaved(_, _)
Interleaved(slices, repeats) ==
    IF slices = << >> THEN << >>
    ELSE Copies(Head(slices), repeats) \o Interleaved(Tail(slices), repeats)

\* t.repeat(1, repeats, 1, 1): the whole dimension, `repeats` times over.
RECURSIVE Tiled(_, _)
Tiled(slices, repeats) ==
    IF repeats = 0 THEN << >> ELSE slices \o Tiled(slices, repeats - 1)

RepeatTiled(t, repeats) ==
    IF IsErr(t) THEN t
    ELSE LET order == Tiled(Vec(t.shape[2], LAMBDA h : h), repeats)
         IN  T4(<<t.shape[1], Len(order), t.shape[3], t.shape[4]>>,
                LAMBDA a, b, c, d : t.data[a][order[b]][c][d])

\* torch.repeat_interleave(t, repeats, dim=1) of a 4-D tensor.
RepeatInterleave(t, repeats) ==
    IF IsErr(t) THEN t
    ELSE LET order == Interleaved(Vec(t.shape[2], LAMBDA h : h), repeats)
         IN  T4(<<t.shape[1], Len(order), t.shape[3], t.shape[4]>>,
                LAMBDA a, b, c, d : t.data[a][order[b]][c][d])

\* ------------------------------------------------ parameters and inputs
\* nn.Linear(in, out) as initialised: the weight of output feature o is w on
\* input feature o % in and 0 elsewhere, every bias is b.  (The
\* initialisation is random in the code; these are the values explored.)
NewLinear(in, out, w, b) ==
    [weight |-> T2(<<out, in>>, LAMBDA o, i : IF i - 1 = (o - 1) % in THEN w ELSE 0),
     bias |-> Tensor(<<out>>, Vec(out, LAMBDA o : b))]

Seeds == 1..NumSeeds
\* The initialisation with number seed: the scalars of the query, key,
\* value and output projections and the bias.
SeedInit(seed) ==
    IF seed % 2 = 1 THEN [q |-> 1, k |-> -1, v |-> seed, o |-> 1, b |-> 1]
    ELSE [q |-> 1, k |-> 1, v |-> seed, o |-> 1, b |-> 0]

\* The dropout arguments explored: 0 and the default 0.1.
DropoutArgs == {[num |-> 0, den |-> DropDen], [num |-> DropNum, den |-> DropDen]}
DefaultDropout == [num |-> DropNum, den |-> DropDen]

\* torch.randn(shape) for a 3-D shape: the values explored.  In pattern id the
\* first id \div 2 positions of every sequence carry Big in feature 0.
Patterns == 1..NumPatterns
Pattern(shape, id) ==
    T3(shape, LAMBDA b, t, d :
        IF d = 1 /\ t <= id \div 2 THEN Big
        ELSE ((b + 2 * t + d + id) % 3) - 1)

\* ------------------------------------------------------ MultiHeadAttention
DModels == 1..MaxDModel
HeadCounts == 1..MaxDModel
\* Arguments whose construction the notebooks and the documentation name:
\* MultiHeadAttention(64, 7); GroupedQueryAttention(d, 8, 3).
ExampleMHA == {<<64, 7>>}
ExampleGQA == {<<512, 8, 3>>, <<24, 8, 3>>}

AssertionError(msg) == [kind |-> "error", msg |-> msg]
IsModule(m) == m.kind \in {"MHA", "GQA", "Causal"}

\* The constructor with the operands of its assertion exchanged.
MHAInitSwappedAssert(d_model, num_heads, dropout, seed) ==
    IF num_heads % d_model # 0
    THEN AssertionError("d_model must be divisible by num_heads")
    ELSE LET i == SeedInit(seed)
         IN  [kind |-> "MHA",
              d_model |-> d_model,
              num_heads |-> num_heads,
              d_k |-> d_model \div num_heads,
              query_proj |-> NewLinear(d_model, d_model, i.q, i.b),
              key_proj |-> NewLinear(d_model, d_model, i.k, i.b),
              value_proj |-> NewLinear(d_model, d_model, i.v, i.b),
              output_proj |-> NewLinear(d_model, d_model, i.o, i.b),
              dropout |-> dropout,
              training |-> TRUE]

MHAInit(d_model, num_heads, dropout, seed) ==
    IF d_model % num_heads # 0
    THEN AssertionError("d_model must be divisible by num_heads")
    ELSE LET i == SeedInit(seed)
         IN  [kind |-> "MHA",
              d_model |-> d_model,
              num_heads |-> num_heads,
              d_k |-> d_model \div num_heads,
              query_proj |-> NewLinear(d_model, d_model, i.q, i.b),
              key_proj |-> NewLinear(d_model, d_model, i.k, i.b),
              value_proj |-> NewLinear(d_model, d_model, i.v, i.b),
              output_proj |-> NewLinear(d_model, d_model, i.o, i.b),
              dropout |-> dropout,
              training |-> TRUE]

\* split_heads without its permute.
split_heads_unpermuted(self, x, batch_size) ==
    View(x, <<batch_size, -1, self.num_heads, self.d_k>>)

split_heads(self, x, batch_size) ==
    SwapMiddle(View(x, <<batch_size, -1, self.num_heads, self.d_k>>))

\* torch.matmul(attention_weights, V): the weights are in One units.
WeightedSum(w, v) ==
    LET c == Matmul(w, v)
    IN  IF IsErr(c) THEN c ELSE DivScalar(c, One)

\* The recombination without its permute.
MergeHeadsUnpermuted(self, context, batch_size) ==
    View(context, <<batch_size, -1, self.d_model>>)

\* The recombination of the heads in forward:
\* context.permute(0, 2, 1, 3).contiguous().view(batch_size, -1, self.d_model).
MergeHeads(self, context, batch_size) ==
    View(SwapMiddle(context), <<batch_size, -1, self.d_model>>)

\* forward up to the softmax: the attention weights before dropout.
MHAAttention(self, a) ==
    LET batch_size == a.query.shape[1]
        Q == split_heads(self, Linear(self.query_proj, a.query), batch_size)
        K == split_heads(self, Linear(self.key_proj, a.key), batch_size)
        scores == DivScalar(Matmul(Q, SwapLast(K)), ISqrt(self.d_k))
        masked == IF IsNone(a.mask) THEN scores ELSE MaskedFill(scores, a.mask, MaskFill)
    IN  Softmax(masked)

\* forward from the dropout on; softmaxed is MHAAttention(self, a).
MHAForward(self, a, softmaxed, dropped) ==
    LET batch_size == a.query.shape[1]
        V == split_heads(self, Linear(self.value_proj, a.value), batch_size)
        attention_weights == Dropout(softmaxed, self.dropout, self.training, dropped)
        context == WeightedSum(attention_weights, V)
        merged == MergeHeads(self, context, batch_size)
        output == Linear(self.output_proj, merged)
    IN  IF IsErr(V) THEN V
        ELSE IF IsErr(output) THEN output
        ELSE [output |-> output, weights |-> attention_weights]

\* --------------------------------------------------- GroupedQueryAttention
\* The constructor without its third assertion.
GQAInitTwoAsserts(d_model, num_query_heads, num_kv_heads, dropout, seed) ==
    IF d_model % num_query_heads # 0
    THEN AssertionError("d_model must be divisible by num_query_heads")
    ELSE IF d_model % num_kv_heads # 0
    THEN AssertionError("d_model must be divisible by num_kv_heads")
    ELSE LET i == SeedInit(seed)
             kv_width == (d_model \div num_query_heads) * num_kv_heads
         IN  [kind |-> "GQA",
              d_model |-> d_model,
              num_query_heads |-> num_query_heads,
              num_kv_heads |-> num_kv_heads,
              kv_groups |-> num_query_heads \div num_kv_heads,
              d_qk |-> d_model \div num_query_heads,
              d_v |-> d_model \div num_kv_heads,
              query_proj |-> NewLinear(d_model, d_model, i.q, i.b),
              key_proj |-> NewLinear(d_model, kv_width, i.k, i.b),
              value_proj |-> NewLinear(d_model, kv_width, i.v, i.b),
              output_proj |-> NewLinear(d_model, d_model, i.o, i.b),
              dropout |-> dropout,
              training |-> TRUE]

GQAInit(d_model, num_query_heads, num_kv_heads, dropout, seed) ==
    IF d_model % num_query_heads # 0
    THEN AssertionError("d_model must be divisible by num_query_heads")
    ELSE IF d_model % num_kv_heads # 0
    THEN AssertionError("d_model must be divisible by num_kv_heads")
    ELSE IF num_query_heads % num_kv_heads # 0
    THEN AssertionError("num_query_heads must be a multiple of num_kv_heads")
    ELSE LET i == SeedInit(seed)
             kv_width == (d_model \div num_query_heads) * num_kv_heads
         IN  [kind |-> "GQA",
              d_model |-> d_model,
              num_query_heads |-> num_query_heads,
              num_kv_heads |-> num_kv_heads,
              kv_groups |-> num_query_heads \div num_kv_heads,
              d_qk |-> d_model \div num_query_heads,
              d_v |-> d_model \div num_kv_heads,
              query_proj |-> NewLinear(d_model, d_model, i.q, i.b),
              key_proj |-> NewLinear(d_model, kv_width, i.k, i.b),
              value_proj |-> NewLinear(d_model, kv_width, i.v, i.b),
              output_proj |-> NewLinear(d_model, d_model, i.o, i.b),
              dropout |-> dropout,
              training |-> TRUE]

\* The key and value heads with the value split into heads of size d_v.
GQAKeyValueDv(self, a) ==
    LET batch_size == a.query.shape[1]
        seq_len_k == a.key.shape[2]
        k_heads == SwapMiddle(View(Linear(self.key_proj, a.key),
                       <<batch_size, seq_len_k, self.num_kv_heads, self.d_qk>>))
        v_heads == SwapMiddle(View(Linear(self.value_proj, a.value),
                       <<batch_size, seq_len_k, self.num_kv_heads, self.d_v>>))
    IN  [k_heads |-> k_heads, v_heads |-> v_heads,
         k |-> RepeatInterleave(k_heads, self.kv_groups),
         v |-> RepeatInterleave(v_heads, self.kv_groups)]

\* The key and value heads of forward: as projected and reshaped (k_heads,
\* v_heads) and as expanded to the number of query heads (k, v).
GQAKeyValue(self, a) ==
    LET batch_size == a.query.shape[1]
        seq_len_k == a.key.shape[2]
        k_heads == SwapMiddle(View(Linear(self.key_proj, a.key),
                       <<batch_size, seq_len_k, self.num_kv_heads, self.d_qk>>))
        v_heads == SwapMiddle(View(Linear(self.value_proj, a.value),
                       <<batch_size, seq_len_k, self.num_kv_heads, self.d_qk>>))
    IN  [k_heads |-> k_heads, v_heads |-> v_heads,
         k |-> RepeatInterleave(k_heads, self.kv_groups),
         v |-> RepeatInterleave(v_heads, self.kv_groups)]

\* forward up to the softmax; kv is GQAKeyValue(self, a).
GQAAttention(self, a, kv) ==
    LET batch_size == a.query.shape[1]
        seq_len_q == a.query.shape[2]
        q == SwapMiddle(View(Linear(self.query_proj, a.query),
                 <<batch_size, seq_len_q, self.num_query_heads, self.d_qk>>))
        scores == DivScalar(Matmul(q, SwapLast(kv.k)), ISqrt(self.d_qk))
        masked == IF IsNone(a.mask) THEN scores ELSE MaskedFill(scores, a.mask, MaskFill)
    IN  IF IsErr(kv.v) THEN kv.v ELSE Softmax(masked)

\* forward from the dropout on.
GQAForward(self, a, kv, softmaxed, dropped) ==
    LET batch_size == a.query.shape[1]
        seq_len_q == a.query.shape[2]
        attention_weights == Dropout(softmaxed, self.dropout, self.training, dropped)
        context == WeightedSum(attention_weights, kv.v)
        merged == View(SwapMiddle(context), <<batch_size, seq_len_q, self.d_model>>)
        output == Linear(self.output_proj, merged)
    IN  IF IsErr(output) THEN output
        ELSE [output |-> output, weights |-> attention_weights]

\* ----------------------------------------------------- CausalSelfAttention
CausalInit(embedding_dim, dropout, seed) ==
    LET i == SeedInit(seed)
    IN  [kind |-> "Causal",
         embedding_dim |-> embedding_dim,
         scale |-> ISqrt(embedding_dim),
         query |-> NewLinear(embedding_dim, embedding_dim, i.q, i.b),
         key |-> NewLinear(embedding_dim, embedding_dim, i.k, i.b),
         value |-> NewLinear(embedding_dim, embedding_dim, i.v, i.b),
         dropout |-> dropout,
         training |-> TRUE]

\* The mask without its diagonal (torch.tril(.., diagonal=-1)).
CausalMaskStrict(seq_len) ==
    T2(<<seq_len, seq_len>>, LAMBDA i, j : IF j < i THEN 1 ELSE 0)

\* The mask forward builds for a sequence of seq_len positions.
CausalMask(seq_len) == Tril(seq_len)

\* forward up to the softmax.
CausalAttention(self, a) ==
    LET seq_len == a.x.shape[2]
        q == Linear(self.query, a.x)
        k == Linear(self.key, a.x)
        scores == DivScalar(Bmm(q, SwapLast(k)), self.scale)
        masked == MaskedFill(scores, CausalMask(seq_len), MaskFill)
    IN  Softmax(masked)

\* forward from the dropout on.
CausalForward(self, a, softmaxed, dropped) ==
    LET v == Linear(self.value, a.x)
        attention == Dropout(softmaxed, self.dropout, self.training, dropped)
        c == Bmm(attention, v)
        output == IF IsErr(c) THEN c ELSE DivScalar(c, One)
    IN  IF IsErr(output) THEN output
        ELSE [output |-> output, weights |-> attention]

\* forward(x) when dropout drops nothing.
CausalCall(self, x) ==
    CausalForward(self, [x |-> x], CausalAttention(self, [x |-> x]), {})

\* forward(query, key, value, mask) when dropout drops nothing.
MHACall(self, a) == MHAForward(self, a, MHAAttention(self, a), {})

GQACall(self, a) ==
    LET kv == GQAKeyValue(self, a)
    IN  GQAForward(self, a, kv, GQAAttention(self, a, kv), {})

\* The module called on the arguments a, when dropout drops nothing.
ForwardOf(self, a) ==
    IF self.kind = "MHA" THEN MHACall(self, a)
    ELSE IF self.kind = "GQA" THEN GQACall(self, a)
    ELSE CausalCall(self, a.x)

\* ------------------------------------------------------------ the session
VARIABLES
    ctor,     \* the constructor call made: NoneV or its arguments
    module,   \* what it produced: NoneV, an AssertionError or the module
    args,     \* the tensors the caller holds for the call: NoneV or a record
    calls,    \* the forward calls made with args: the mode (training) of each
    result,   \* what the last forward call returned: NoneV, Err or (output, weights)
    locals    \* GroupedQueryAttention: the key/value heads of the last call

vars == <<ctor, module, args, calls, result, locals>>

Init ==
    /\ ctor = NoneV
    /\ module = NoneV
    /\ args = NoneV
    /\ calls = << >>
    /\ result = NoneV
    /\ locals = NoneV

MHAArgs == (DModels \X HeadCounts) \cup ExampleMHA
GQAArgs == (DModels \X HeadCounts \X HeadCounts) \cup ExampleGQA

\* mha = MultiHeadAttention(d_model, num_heads[, dropout])
ConstructMHA ==
    /\ IsNone(module)
    /\ \E c \in MHAArgs, dropout \in DropoutArgs, seed \in Seeds :
          /\ ctor' = [kind |-> "MHA", d_model |-> c[1], num_heads |-> c[2],
                      dropout |-> dropout]
          /\ module' = MHAInit(c[1], c[2], dropout, seed)
    /\ UNCHANGED <<args, calls, result, locals>>

\* gqa = GroupedQueryAttention(d_model, num_query_heads, num_kv_heads[, dropout])
ConstructGQA ==
    /\ IsNone(module)
    /\ \E c \in GQAArgs, dropout \in DropoutArgs, seed \in Seeds :
          /\ ctor' = [kind |-> "GQA", d_model |-> c[1], num_query_heads |-> c[2],
                      num_kv_heads |-> c[3], dropout |-> dropout]
          /\ module' = GQAInit(c[1], c[2], c[3], dropout, seed)
    /\ UNCHANGED <<args, calls, result, locals>>

\* causal_attn = CausalSelfAttention(embedding_dim[, dropout])
ConstructCausal ==
    /\ IsNone(module)
    /\ \E d \in DModels, dropout \in DropoutArgs, seed \in Seeds :
          /\ ctor' = [kind |-> "Causal", embedding_dim |-> d, dropout |-> dropout]
          /\ module' = CausalInit(d, dropout, seed)
    /\ UNCHANGED <<args, calls, result, locals>>

\* module.eval(): from training mode, in which a module is constructed, to
\* inference mode.
Eval ==
    /\ IsModule(module) /\ module.training
    /\ module' = [module EXCEPT !.training = FALSE]
    /\ UNCHANGED <<ctor, args, calls, result, locals>>

\* The caller makes query, key, value and the mask: key and value have one
\* shape, which need not be the query's; the mask is None or the tests' mask.
\* No tensor holds more than MaxTokens positions.
MakeQKV ==
    /\ module.kind \in {"MHA", "GQA"}
    /\ IsNone(args)
    /\ \E bq \in 1..MaxBatch, tq \in 1..MaxSeq, bk \in 1..MaxBatch, tk \in 1..MaxSeq,
          p \in Patterns, masked \in BOOLEAN :
          /\ bq * tq <= MaxTokens /\ bk * tk <= MaxTokens
          /\ args' = [query |-> Pattern(<<bq, tq, module.d_model>>, p),
                      key |-> Pattern(<<bk, tk, module.d_model>>, p),
                      value |-> Pattern(<<bk, tk, module.d_model>>, p + 1),
                      mask |-> IF masked THEN TestMask(tq) ELSE NoneV]
    /\ UNCHANGED <<ctor, module, calls, result, locals>>

\* The caller makes x.
MakeX ==
    /\ module.kind = "Causal"
    /\ IsNone(args)
    /\ \E b \in 1..MaxBatch, t \in 1..MaxSeq, p \in Patterns :
          /\ b * t <= MaxTokens
          /\ args' = [x |-> Pattern(<<b, t, module.embedding_dim>>, p)]
    /\ UNCHANGED <<ctor, module, calls, result, locals>>

\* output, attention = mha(query, key, value, mask)
ForwardMHA ==
    /\ module.kind = "MHA"
    /\ ~IsNone(args)
    /\ Len(calls) < MaxCalls
    /\ calls' = Append(calls, module.training)
    /\ LET softmaxed == MHAAttention(module, args)
       IN  \E dropped \in DropChoices(Count(softmaxed), module.dropout, module.training) :
              result' = MHAForward(module, args, softmaxed, dropped)
    /\ UNCHANGED <<ctor, module, args, locals>>

\* output, attention = gqa(query, key, value, mask)
ForwardGQA ==
    /\ module.kind = "GQA"
    /\ ~IsNone(args)
    /\ Len(calls) < MaxCalls
    /\ calls' = Append(calls, module.training)
    /\ LET kv == GQAKeyValue(module, args)
           softmaxed == GQAAttention(module, args, kv)
       IN  /\ locals' = kv
           /\ \E dropped \in DropChoices(Count(softmaxed), module.dropout, module.training) :
                 result' = GQAForward(module, args, kv, softmaxed, dropped)
    /\ UNCHANGED <<ctor, module, args>>

\* The call with the scaling done in place on the input (x.div_(self.scale)).
ForwardCausalInPlace ==
    /\ module.kind = "Causal"
    /\ ~IsNone(args)
    /\ Len(calls) < MaxCalls
    /\ calls' = Append(calls, module.training)
    /\ args' = [x |-> DivScalar(args.x, module.scale)]
    /\ LET softmaxed == CausalAttention(module, args')
       IN  \E dropped \in DropChoices(Count(softmaxed), module.dropout, module.training) :
              result' = CausalForward(module, args', softmaxed, dropped)
    /\ UNCHANGED <<ctor, module, locals>>

\* output, attention = causal_attn(x)
ForwardCausal ==
    /\ module.kind = "Causal"
    /\ ~IsNone(args)
    /\ Len(calls) < MaxCalls
    /\ calls' = Append(calls, module.training)
    /\ LET softmaxed == CausalAttention(module, args)
       IN  \E dropped \in DropChoices(Count(softmaxed), module.dropout, module.training) :
              result' = CausalForward(module, args, softmaxed, dropped)
    /\ UNCHANGED <<ctor, module, args, locals>>

Next ==
    \/ ConstructMHA
    \/ ConstructGQA
    \/ ConstructCausal
    \/ Eval
    \/ MakeQKV
    \/ MakeX
    \/ ForwardMHA
    \/ ForwardGQA
    \/ ForwardCausal

Spec == Init /\ [][Next]_vars

\* --------------------------------------------------- test_causal_attention
\* The example's sizes.
ExampleBatch == 1
ExampleSeqLen == 4
ExampleEmbeddingDim == 8

\* torch.randn(batch_size, seq_len, embedding_dim): the inputs explored, of
\* the magnitude of a standard normal sample.
Randn(shape, id) ==
    T3(shape, LAMBDA b, t, d : ((id * t + (id \div 7 + 1) * d + b) % 7) - 3)

\* x = torch.randn(batch_size, seq_len, embedding_dim)
TestMakeX ==
    /\ IsNone(args)
    /\ \E id \in 1..NumExamples :
          args' = [x |-> Randn(<<ExampleBatch, ExampleSeqLen, ExampleEmbeddingDim>>, id)]
    /\ UNCHANGED <<ctor, module, calls, result, locals>>

\* causal_attn = CausalSelfAttention(embedding_dim)
TestConstruct ==
    /\ ~IsNone(args) /\ IsNone(module)
    /\ \E seed \in Seeds :
          /\ ctor' = [kind |-> "Causal", embedding_dim |-> ExampleEmbeddingDim,
                      dropout |-> DefaultDropout]
          /\ module' = CausalInit(ExampleEmbeddingDim, DefaultDropout, seed)
    /\ UNCHANGED <<args, calls, result, locals>>

\* output, attention = causal_attn(x)
TestForward ==
    /\ module.kind = "Causal"
    /\ calls = << >>
    /\ calls' = Append(calls, module.training)
    /\ LET softmaxed == CausalAttention(module, args)
       IN  \E dropped \in DropChoices(Count(softmaxed), module.dropout, module.training) :
              result' = CausalForward(module, args, softmaxed, dropped)
    /\ UNCHANGED <<ctor, module, args, locals>>

TestNext ==
    \/ TestMakeX
    \/ TestConstruct
    \/ TestForward

TestSpec == Init /\ [][TestNext]_vars

\* ------------------------------------------------- calls on whole batches
\* The caller makes query, key, value and the mask for MaxBatch batch
\* elements of up to MaxSeq positions each.
BatchMakeQKV ==
    /\ module.kind \in {"MHA", "GQA"}
    /\ IsNone(args)
    /\ \E tq \in 1..MaxSeq, tk \in 1..MaxSeq, p \in Patterns, masked \in BOOLEAN :
          args' = [query |-> Pattern(<<MaxBatch, tq, module.d_model>>, p),
                   key |-> Pattern(<<MaxBatch, tk, module.d_model>>, p),
                   value |-> Pattern(<<MaxBatch, tk, module.d_model>>, p + 1),
                   mask |-> IF masked THEN TestMask(tq) ELSE NoneV]
    /\ UNCHANGED <<ctor, module, calls, result, locals>>

\* The caller makes x for MaxBatch batch elements.
BatchMakeX ==
    /\ module.kind = "Causal"
    /\ IsNone(args)
    /\ \E t \in 1..MaxSeq, p \in Patterns :
          args' = [x |-> Pattern(<<MaxBatch, t, module.embedding_dim>>, p)]
    /\ UNCHANGED <<ctor, module, calls, result, locals>>

BatchNext ==
    \/ ConstructMHA
    \/ ConstructGQA
    \/ ConstructCausal
    \/ Eval
    \/ BatchMakeQKV
    \/ BatchMakeX
    \/ ForwardMHA
    \/ ForwardGQA
    \/ ForwardCausal

BatchSpec == Init /\ [][BatchNext]_vars

\* ================================================================ claims
Called == Len(calls) > 0
Returned == "weights" \in DOMAIN result
\* Dropout does nothing in a call made in mode `training`.
Inactive(training) == ~training \/ module.dropout.num = 0

\* The shape of the scores of the call: (batch, heads, query positions, key positions).
Heads == IF module.kind = "MHA" THEN module.num_heads ELSE module.num_query_heads
ScoresShape == <<args.query.shape[1], Heads, args.query.shape[2], args.key.shape[2]>>
MaskFits == IsNone(args.mask) \/ Broadcastable(args.mask.shape, ScoresShape)
SameBatch == args.key.shape[1] = args.query.shape[1]

\* C1: CausalSelfAttention.forward returns attention weights that are exactly
\* zero strictly above the diagonal, for every input, batch element and
\* dropout outcome.
C1_UpperTriangleZero ==
    (module.kind = "Causal" /\ Returned) =>
        \A b \in 1..result.weights.shape[1], i \in 1..result.weights.shape[2],
           j \in 1..result.weights.shape[3] :
            j > i => result.weights.data[b][i][j] = 0

\* C2: MultiHeadAttention.forward, called with query (B, T_q, D) and key and
\* value (B, T_k, D) (and no mask, or a mask that broadcasts to the scores),
\* returns an output of the query's shape and weights of shape (B, H, T_q, T_k).
C2_MHAShapes ==
    (module.kind = "MHA" /\ Called /\ SameBatch /\ MaskFits) =>
        /\ Returned
        /\ result.output.shape = args.query.shape
        /\ result.weights.shape = ScoresShape
        /\ Len(Storage(result.output)) = Prod(args.query.shape)
        /\ Len(Storage(result.weights)) = Prod(ScoresShape)

C2_Witness ==
    /\ module.kind = "MHA" /\ Called /\ Returned
    /\ module.num_heads = 2 /\ module.d_model = 4
    /\ args.query.shape = <<1, 2, 4>> /\ args.key.shape = <<1, 1, 4>>
    /\ result.weights.shape = <<1, 2, 2, 1>>

\* C3: GroupedQueryAttention.forward: after the expansion the key and the
\* value tensor have num_query_heads heads, and expanded head i (0-based)
\* is the original kv head floor(i / kv_groups).
C3_ExpandedHeads ==
    (module.kind = "GQA" /\ Called /\ Returned) =>
        \A x \in {<<locals.k_heads, locals.k>>, <<locals.v_heads, locals.v>>} :
            /\ x[2].shape[2] = module.num_query_heads
            /\ \A b \in 1..x[2].shape[1], i \in 0..(module.num_query_heads - 1) :
                   x[2].data[b][i + 1] = x[1].data[b][(i \div module.kv_groups) + 1]

C3_Witness ==
    /\ module.kind = "GQA" /\ Called /\ Returned
    /\ module.kv_groups = 2 /\ module.num_kv_heads = 2
    /\ locals.k_heads.data[1][1] # locals.k_heads.data[1][2]
    /\ locals.k.data[1][2] = locals.k_heads.data[1][1]
    /\ locals.k.data[1][3] = locals.k_heads.data[1][2]

\* C4: MultiHeadAttention(d_model, num_heads) raises when d_model is not
\* divisible by num_heads (no module is produced), and otherwise produces
\* the module with d_k = d_model / num_heads.
C4_MHAConstruction ==
    ctor.kind = "MHA" =>
        IF ctor.d_model % ctor.num_heads # 0
        THEN module.kind = "error"
        ELSE /\ module.kind = "MHA"
             /\ module.d_model = ctor.d_model /\ module.num_heads = ctor.num_heads
             /\ module.d_k * ctor.num_heads = ctor.d_model

C4_Witness ==
    /\ ctor.kind = "MHA" /\ ctor.d_model = 64 /\ ctor.num_heads = 7
    /\ module.kind = "error"

\* C5: GroupedQueryAttention(d_model, num_query_heads, num_kv_heads) raises
\* if and only if d_model % num_query_heads, d_model % num_kv_heads or
\* num_query_heads % num_kv_heads is not 0; otherwise the module is built
\* with kv_groups = num_query_heads / num_kv_heads.
C5_GQAConstruction ==
    ctor.kind = "GQA" =>
        IF \/ ctor.d_model % ctor.num_query_heads # 0
           \/ ctor.d_model % ctor.num_kv_heads # 0
           \/ ctor.num_query_heads % ctor.num_kv_heads # 0
        THEN module.kind = "error"
        ELSE /\ module.kind = "GQA"
             /\ module.kv_groups * ctor.num_kv_heads = ctor.num_query_heads

C5_Witness ==
    /\ ctor.kind = "GQA" /\ ctor.num_query_heads = 8 /\ ctor.num_kv_heads = 3
    /\ ctor.d_model = 24
    /\ module.kind = "error"

\* C6: GroupedQueryAttention.forward, called with query (B, T_q, D) and key
\* and value (B, T_k, D) (and no mask, or a mask that broadcasts to the
\* scores): every reshape succeeds, the key and value projections split into
\* num_kv_heads heads of size D / num_query_heads, the output has the
\* query's shape and the weights have shape (B, num_query_heads, T_q, T_k).
C6_GQAShapes ==
    (module.kind = "GQA" /\ Called /\ SameBatch /\ MaskFits) =>
        /\ Returned
        /\ \A x \in {locals.k_heads, locals.v_heads} :
              /\ ~IsErr(x)
              /\ x.shape = <<args.key.shape[1], module.num_kv_heads, args.key.shape[2],
                             module.d_model \div module.num_query_heads>>
        /\ result.output.shape = args.query.shape
        /\ result.weights.shape = ScoresShape
        /\ Len(Storage(result.output)) = Prod(args.query.shape)
        /\ Len(Storage(result.weights)) = Prod(ScoresShape)

C6_Witness ==
    /\ module.kind = "GQA" /\ Called /\ Returned
    /\ module.num_query_heads = 4 /\ module.num_kv_heads = 2
    /\ args.query.shape = <<1, 2, 4>> /\ args.key.shape = <<1, 1, 4>>
    /\ locals.k_heads.shape = <<1, 2, 1, 1>>
    /\ result.weights.shape = <<1, 4, 2, 1>>

\* Whether the mask leaves key position j allowed for query position i of
\* head h of batch element b (Causal: h is not used).
Allowed(b, h, i, j) ==
    IF module.kind = "Causal" THEN CausalMask(args.x.shape[2]).data[i][j] # 0
    ELSE \/ IsNone(args.mask)
         \/ AtIdx(args.mask.data,
                  BroadcastIdx(args.mask.shape, ScoresShape, <<b, h, i, j>>)) # 0

\* The rows of the returned weights, as index tuples, and a row's weights.
Rows ==
    LET s == result.weights.shape
    IN  IF Len(s) = 3 THEN {<<b, 1, i>> : b \in 1..s[1], i \in 1..s[2]}
        ELSE {<<b, h, i>> : b \in 1..s[1], h \in 1..s[2], i \in 1..s[3]}

Row(r) ==
    IF Rank(result.weights) = 3 THEN result.weights.data[r[1]][r[3]]
    ELSE result.weights.data[r[1]][r[2]][r[3]]

AllowedSum(r) ==
    SumSeq(Vec(Len(Row(r)), LAMBDA j : IF Allowed(r[1], r[2], r[3], j) THEN Row(r)[j] ELSE 0))

\* x is 1.0 up to the rounding of n fixed-point quotients.
IsOne(x, n) == One - n <= x /\ x <= One + n

\* C7: for a module built with dropout probability 0, every row of the
\* returned weights with an allowed key position sums to 1 over its allowed
\* key positions.
C7_RowsSumToOne ==
    (IsModule(module) /\ ctor.dropout.num = 0 /\ Returned /\ (module.kind = "Causal" \/ MaskFits)) =>
        \A r \in Rows :
            (\E j \in 1..Len(Row(r)) : Allowed(r[1], r[2], r[3], j)) =>
                IsOne(AllowedSum(r), Len(Row(r)))

\* C8: the causal example (embedding_dim 8, the default dropout, training
\* mode, one call on a (1, 4, 8) input) returns weights that are zero above
\* the diagonal, lie between 0 and 1, and sum to 1 along every row.
C8_ExampleWeights ==
    (/\ module.kind = "Causal" /\ Returned
     /\ ctor.embedding_dim = ExampleEmbeddingDim /\ ctor.dropout = DefaultDropout
     /\ calls = <<TRUE>>
     /\ args.x.shape = <<ExampleBatch, ExampleSeqLen, ExampleEmbeddingDim>>) =>
        /\ \A i, j \in 1..ExampleSeqLen :
              LET w == result.weights.data[1][i][j]
              IN  (j > i => w = 0) /\ 0 <= w /\ w <= One
        /\ \A r \in Rows : IsOne(AllowedSum(r), ExampleSeqLen)

\* C9: MultiHeadAttention.forward fails whenever the key's (and value's)
\* batch size differs from the query's.
C9_MismatchedBatchFails ==
    (module.kind = "MHA" /\ Called /\ ~SameBatch) => IsErr(result)

\* C10 as stated: a forward call with the inputs and the module of the call
\* before it returns what that call returned.
C10_ForwardIsPure ==
    [][(Called /\ Len(calls') = Len(calls) + 1) => result' = result]_vars

\* C10: a forward call with the inputs and the module of the call before it
\* returns what that call returned, when dropout is inactive in both calls
\* (the module is in inference mode or its dropout probability is 0).
C10_ForwardIsPureWhenInactive ==
    [][(/\ Called /\ Len(calls') = Len(calls) + 1
        /\ Inactive(calls[Len(calls)]) /\ Inactive(module.training)) => result' = result]_vars

C10_Witness ==
    /\ Len(calls) = 2 /\ Returned
    /\ module.dropout.num > 0 /\ ~calls[1] /\ ~calls[2]

\* C11: a forward call leaves the caller's tensors (query, key, value and
\* mask, or x) and the module (its projection weights, its configuration
\* fields and its mode) as they were.
C11_ForwardFrame ==
    [][Len(calls') > Len(calls) => (args' = args /\ module' = module)]_vars

C11_Witness ==
    /\ Len(calls) = 2 /\ Returned
    /\ module.kind = "Causal" /\ module.scale > 1

\* C12: the mask CausalSelfAttention.forward builds for a sequence of T
\* positions is (T, T) and allows (i, j) exactly when j <= i, so row i
\* (0-based) has i + 1 allowed entries, its diagonal among them; for the
\* length of the call made and for every T up to MaxMaskLen.
C12_CausalMask ==
    (module.kind = "Causal" /\ Called) =>
        \A T \in (1..MaxMaskLen) \cup {args.x.shape[2]} :
            LET m == CausalMask(T)
            IN  /\ m.shape = <<T, T>>
                /\ Len(m.data) = T
                /\ \A i \in 0..(T - 1) :
                      /\ Len(m.data[i + 1]) = T
                      /\ \A j \in 0..(T - 1) : (m.data[i + 1][j + 1] # 0) <=> (j <= i)
                      /\ m.data[i + 1][i + 1] # 0
                      /\ Cardinality({j \in 0..(T - 1) : m.data[i + 1][j + 1] # 0}) = i + 1

C12_Witness ==
    /\ module.kind = "Causal" /\ Called /\ Returned
    /\ args.x.shape[2] = 2
    /\ CausalMask(2).data = <<<<1, 0>>, <<1, 1>>>>

\* C13: for each of the (B, T, D) tensors of a MultiHeadAttention call,
\* split_heads gives a (B, H, T, d_k) tensor whose element (b, h, t, j) is
\* the tensor's element (b, t, h * d_k + j), and the recombination of
\* forward sends it back: merging the split returns the tensor unchanged.
C13_SplitMergeInverse ==
    (module.kind = "MHA" /\ Called) =>
        \A x \in {args.query, args.key, args.value} :
            LET B == x.shape[1]
                T == x.shape[2]
                H == module.num_heads
                s == split_heads(module, x, B)
                m == MergeHeads(module, s, B)
            IN  /\ s.shape = <<B, H, T, module.d_k>>
                /\ \A b \in 1..B, t \in 1..T, h \in 0..(H - 1), j \in 0..(module.d_k - 1) :
                      s.data[b][h + 1][t][j + 1] = x.data[b][t][h * module.d_k + j + 1]
                /\ m.shape = <<B, T, module.d_model>>
                /\ \A b \in 1..B, t \in 1..T, h \in 0..(H - 1), j \in 0..(module.d_k - 1) :
                      m.data[b][t][h * module.d_k + j + 1] = s.data[b][h + 1][t][j + 1]
                /\ m = x

C13_Witness ==
    /\ module.kind = "MHA" /\ Called /\ Returned
    /\ module.num_heads = 2 /\ module.d_k = 2
    /\ args.query.shape = <<1, 2, 4>>
    /\ split_heads(module, args.query, 1).data[1][2][1] = SubSeq(args.query.data[1][1], 3, 4)
    /\ args.query.data[1][1] # args.query.data[1][2]

\* C14: in MultiHeadAttention.forward and GroupedQueryAttention.forward the
\* mask is shared by the heads: in every head, a key position whose mask
\* entry is 0 has weight zero in every row that has an allowed key (with the
\* tests' mask: the weights of every head are zero above the diagonal).
C14_MaskedWeightsZero ==
    (module.kind \in {"MHA", "GQA"} /\ Returned) =>
        \A r \in Rows :
            (\E j \in 1..Len(Row(r)) : Allowed(r[1], r[2], r[3], j)) =>
                \A j \in 1..Len(Row(r)) : ~Allowed(r[1], r[2], r[3], j) => Row(r)[j] = 0

\* x with the positions after the first i (of every batch element) taken
\* from y, a tensor of x's shape.
FutureChanged(x, y, i) ==
    T3(x.shape, LAMBDA b, t, d : IF t <= i THEN x.data[b][t][d] ELSE y.data[b][t][d])

\* C15: with dropout inactive, CausalSelfAttention.forward returns the same
\* output vector and the same weight row at a position for two inputs that
\* agree up to that position and differ only after it.
C15_NoFutureLeak ==
    (module.kind = "Causal" /\ Returned /\ Inactive(calls[Len(calls)])) =>
        \A q \in Patterns, i \in 1..args.x.shape[2] :
            LET other == CausalCall(module, FutureChanged(args.x, Pattern(args.x.shape, q), i))
            IN  \A b \in 1..args.x.shape[1] :
                    /\ other.output.data[b][i] = result.output.data[b][i]
                    /\ other.weights.data[b][i] = result.weights.data[b][i]

\* x with every batch element but b taken from y, a tensor of x's shape.
OthersChanged(x, y, b) ==
    T3(x.shape, LAMBDA c, t, d : IF c = b THEN x.data[c][t][d] ELSE y.data[c][t][d])

\* The arguments of the call with every batch element but b taken from
\* the input pattern q; the mask is kept.
ArgsOthersChanged(q, b) ==
    IF module.kind = "Causal"
    THEN [x |-> OthersChanged(args.x, Pattern(args.x.shape, q), b)]
    ELSE [query |-> OthersChanged(args.query, Pattern(args.query.shape, q), b),
          key |-> OthersChanged(args.key, Pattern(args.key.shape, q), b),
          value |-> OthersChanged(args.value, Pattern(args.value.shape, q + 1), b),
          mask |-> args.mask]

\* The batch size of the call.
BatchSize == IF module.kind = "Causal" THEN args.x.shape[1] ELSE args.query.shape[1]

\* C16: with key and value of the query's batch size and dropout inactive,
\* the output and the weights a module returns for batch element b are the
\* same when the inputs of the other batch elements are changed.
C16_BatchIndependent ==
    (/\ IsModule(module) /\ Returned /\ Inactive(calls[Len(calls)])
     /\ (module.kind = "Causal" \/ SameBatch)) =>
        \A q \in Patterns, b \in 1..BatchSize :
            LET other == ForwardOf(module, ArgsOthersChanged(q, b))
            IN  /\ "weights" \in DOMAIN other
                /\ other.output.data[b] = result.output.data[b]
                /\ other.weights.data[b] = result.weights.data[b]

C16_Witness ==
    /\ module.kind = "MHA" /\ Returned /\ Inactive(calls[Len(calls)]) /\ SameBatch
    /\ BatchSize = 2 /\ args.query.shape[2] = 2 /\ args.key.shape[2] = 2
    /\ result.weights.data[2][1][1][1] # result.weights.data[2][1][1][2]
    /\ \E q \in Patterns :
          LET other == ForwardOf(module, ArgsOthersChanged(q, 1))
          IN  /\ other.output.data[2] # result.output.data[2]
              /\ other.output.data[1] = result.output.data[1]

\* MultiHeadAttention(d_model, num_heads) with the projection weights and
\* the mode of the GroupedQueryAttention module gqa.
MHAWithWeightsOf(gqa) ==
    [MHAInit(gqa.d_model, gqa.num_query_heads, gqa.dropout, CHOOSE seed \in Seeds : TRUE)
        EXCEPT !.query_proj = gqa.query_proj, !.key_proj = gqa.key_proj,
               !.value_proj = gqa.value_proj, !.output_proj = gqa.output_proj,
               !.training = gqa.training]

\* Two calls end alike: both raise, or both return the same pair.
SameOutcome(r1, r2) ==
    IF IsErr(r1) \/ IsErr(r2) THEN IsErr(r1) /\ IsErr(r2) ELSE r1 = r2

\* C17: GroupedQueryAttention with num_kv_heads = num_query_heads = H is
\* MultiHeadAttention with H heads: the key and value projections are
\* d_model wide, the expansion of the heads is the identity, the head size
\* and the scale agree, and with the same weights, inputs and mask and
\* dropout inactive both calls return the same output and weights.
C17_GQAIsMHA ==
    (/\ module.kind = "GQA" /\ module.num_kv_heads = module.num_query_heads
     /\ Called /\ Inactive(calls[Len(calls)])) =>
        LET mha == MHAWithWeightsOf(module)
        IN  /\ module.key_proj.weight.shape = <<module.d_model, module.d_model>>
            /\ module.value_proj.weight.shape = <<module.d_model, module.d_model>>
            /\ module.kv_groups = 1
            /\ locals.k = locals.k_heads /\ locals.v = locals.v_heads
            /\ module.d_qk = mha.d_k
            /\ ISqrt(module.d_qk) = ISqrt(mha.d_k)
            /\ SameOutcome(MHACall(mha, args), result)

=============================================================================
